---- MODULE Spec2Model ----
(***************************************************************************)
(* A model of the BIDS_creator_tool scripts:                               *)
(*   DICOMDIR_creation_tool.py      (sequential, counter registries)       *)
(*   dicom_sorting_tool.py          (process pool, uniquified filenames)   *)
(*   dicom_sort_series_filtering.py (sequential, guarded overwrite)        *)
(*   modify_protocol_name.py        (process pool, tally of outcomes)      *)
(*   Batch_dcm2bids.py              (one converter call per session)       *)
(* Strings of the program are sequences of one-character strings, so that  *)
(* formatting, splitting and sanitizing are computed, not assumed.         *)
(***************************************************************************)
EXTENDS Integers, Sequences, FiniteSets, TLC

VARIABLES
    \* ---- DICOMDIR_creation_tool.py ----
    dd_anonymize,      \* args.anonymize
    dd_id_map,         \* id_map handed to sort_dicom
    date_counter,      \* module global date_counter
    sequence_counter,  \* module global sequence_counter
    image_counter,     \* module global image_counter
    dd_missing_ids,    \* module global missing_ids
    dd_written,        \* history: one record per file placed in the output tree
    dd_nfiles,         \* number of files copy_directory has handed to copy_dicom_image
    dd_files,          \* the files handed to copy_dicom_image so far, in order
    dd_fs,             \* the paths (directory, name) of the files in the output root
    dd_first,          \* history: NoRun, or the files and the result of the run before
    dd_pc,             \* position of main: "sorting", "done"
    dd_logfile,        \* missing_patient_ids.log: NoLog or the set of its lines
    \* ---- dicom_sorting_tool.py ----
    st_anonymize,      \* args.anonymize
    st_id_map,         \* id_map handed to sort_dicom
    st_files,          \* all_files of copy_directory: the enumerated input files
    st_task,           \* per submitted future: position, worker, state of the name loop
    st_fs,             \* output tree: path -> the file saved there
    st_worker_missing, \* per pool worker process: its own copy of the global missing_ids
    st_missing_ids,    \* the parent process's global missing_ids
    st_parent,         \* position of main: "waiting", "exit0", "exit1"
    st_logfile,        \* missing_patient_ids.log: NoLog or the set of its lines
    \* ---- dicom_sort_series_filtering.py ----
    ft_anonymize,      \* args.anonymize
    ft_id_map,         \* id_map handed to sort_dicom
    ft_move,           \* args.move
    ft_force,          \* args.force
    ft_fs,             \* output tree: path -> content of the file there
    ft_report,         \* history: one record per file handed to copy_or_move_dicom_image
    ft_missing_ids,    \* module global missing_ids
    ft_nfiles,         \* number of files copy_directory has handed over
    ft_src,            \* the source files handed over, after their call: content or NoContent
    ft_pc,             \* position of main: "sorting", "done"
    ft_logfile,        \* missing_patient_ids.log: NoLog or the set of its lines
    \* ---- modify_protocol_name.py ----
    mp_files,          \* all_files of main: the enumerated files
    mp_task,           \* per call of process_file in the pool: its position
    mp_fs,             \* the files on disk: index in all_files -> dataset stored there
    mp_results,        \* results: the (file_path, success) pairs in order of completion
    mp_success_count,  \* success_count of main
    mp_failure_count,  \* failure_count of main
    mp_pc,             \* position of main: "pool", "done", "nofiles"
    \* ---- dicom_sorting_tool.py, main up to the dispatch ----
    su_dicomin,        \* --dicomin: whether the directory exists, and its file count
    su_corr,           \* --ID_correlation: not given, unreadable, or the lines of the file
    su_lineno,         \* lines of the correlation file read so far
    su_id_map,         \* id_map being built by read_id_correlation
    su_printed,        \* the numbers of the lines reported with "Invalid line format"
    su_out_exists,     \* whether the output root exists
    su_created,        \* history: whether the run created the output root
    su_submitted,      \* futures submitted to the pool
    su_pc,             \* main: "reading", "sort_dicom", "dispatched", "exit0", "exit1"
    \* ---- DICOMDIR_creation_tool.py, the registries over a long run ----
    rg_seen,           \* history: distinct date keys, sequence keys and later files so far
    rg_last,           \* history: the calls of get_date_id / get_sequence_id of the last step
    \* ---- sanitize_series_description / sanitize_filepath ----
    sz_description,    \* the series description handed to sanitize_series_description
    sz_pc,             \* "input", "sanitized"
    sz_result,         \* the sanitized description and destination path, and both re-sanitized
    \* ---- Batch_dcm2bids.py, process_sessions ----
    bt_tree,           \* sourcedata_dir: what each name in it is, and what a directory holds
    bt_studies,        \* BIDSDIR/studies.tsv: whether it exists, and its lines
    bt_subjects,       \* subjects: the sorted subject directories
    bt_subject,        \* position of "for subject in subjects"
    bt_sessions,       \* sessions: the sorted session directories of the subject
    bt_session,        \* position of "for session_dir in sessions"
    bt_session_number, \* session_number
    bt_calls,          \* history: the dcm2bids commands run, with their return codes
    bt_appended,       \* history: the lines appended to studies.tsv by this run
    bt_pc              \* "start", "subjects", "sessions", "append", "done", "raised"

dd_vars == <<dd_anonymize, dd_id_map, date_counter, sequence_counter, image_counter,
             dd_missing_ids, dd_written, dd_nfiles, dd_files, dd_fs, dd_first, dd_pc,
             dd_logfile>>

st_vars == <<st_anonymize, st_id_map, st_files, st_task, st_fs, st_worker_missing,
             st_missing_ids, st_parent, st_logfile>>

ft_vars == <<ft_anonymize, ft_id_map, ft_move, ft_force, ft_fs, ft_report, ft_missing_ids,
             ft_nfiles, ft_src, ft_pc, ft_logfile>>

mp_vars == <<mp_files, mp_task, mp_fs, mp_results, mp_success_count, mp_failure_count, mp_pc>>

su_vars == <<su_dicomin, su_corr, su_lineno, su_id_map, su_printed, su_out_exists,
             su_created, su_submitted, su_pc>>

rg_vars == <<rg_seen, rg_last>>

sz_vars == <<sz_description, sz_pc, sz_result>>

bt_vars == <<bt_tree, bt_studies, bt_subjects, bt_subject, bt_sessions, bt_session,
             bt_session_number, bt_calls, bt_appended, bt_pc>>

vars == <<dd_vars, st_vars, ft_vars, mp_vars, su_vars, rg_vars, sz_vars, bt_vars>>

----------------------------------------------------------------------------
(* Bounds of the model *)

\* files one run of the DICOMDIR tool enumerates
MaxFiles == 3

\* files one run of the sorting tool enumerates
NumSortFiles == 2

\* files one run of the filtering tool enumerates
MaxFilterFiles == 2

\* worker processes of the sorting tool's pool: max(2, cpu_count() // 2)
NumWorkers == 2

\* files one run of modify_protocol_name enumerates at most
MaxProtoFiles == 2

\* lines of a correlation file at most
MaxCorrLines == 2

\* files, each of another series, in the top directory of a large input tree
BigDirectory == 9998

\* files enumerated after those of the top directory
MaxLater == 4

\* characters of a series description at most
MaxDescLen == 3

\* session directories of one subject at most
MaxSessionDirs == 2

----------------------------------------------------------------------------
(* Strings *)

DigitChars == <<"0", "1", "2", "3", "4", "5", "6", "7", "8", "9">>

\* str(n) / the digits "d" formats, for n >= 0
RECURSIVE Digits(_)
Digits(n) == IF n < 10 THEN <<DigitChars[n + 1]>>
             ELSE Digits(n \div 10) \o <<DigitChars[(n % 10) + 1]>>

\* the zero fill of the format spec 0{length}d: pads, never truncates
ZeroPad(s, length) ==
    IF Len(s) >= length THEN s ELSE [i \in 1..(length - Len(s)) |-> "0"] \o s

EmptyFcn == [x \in {} |-> x]

Absent == <<"<absent>">>

Opt(tag, v) == IF v = Absent THEN EmptyFcn ELSE (tag :> v)

UNKNOWN == <<"U", "N", "K", "N", "O", "W", "N">>
ANONYMIZED == <<"A", "N", "O", "N", "Y", "M", "I", "Z", "E", "D">>

\* get_dicom_attribute: str(getattr(dataset, attribute)), 'UNKNOWN' when absent.
\* SeriesNumber is held as an integer (VR IS); every other field is text.
get_dicom_attribute(dataset, attribute) ==
    IF attribute \notin DOMAIN dataset THEN UNKNOWN
    ELSE IF attribute = "SeriesNumber" THEN Digits(dataset[attribute])
    ELSE dataset[attribute]

----------------------------------------------------------------------------
(* Correlation map and anonymization (the same code in three scripts) *)

\* id_map is None, or the dict read_id_correlation returned (possibly empty)
IdMapNone == [supplied |-> FALSE, map |-> EmptyFcn]
IdMapOf(m) == [supplied |-> TRUE, map |-> m]

\* Python truthiness of id_map: None and {} are both false
Truthy(id_map) == id_map.supplied /\ DOMAIN id_map.map # {}

\* anonymize_dicom_tags: the dataset it returns
anonymize_dicom_tags(dataset, id_map) ==
    [t \in DOMAIN dataset |->
        IF t = "PatientBirthDate" THEN <<>>
        ELSE IF t = "PatientName" THEN ANONYMIZED
        ELSE IF t = "PatientID" /\ Truthy(id_map) /\ dataset[t] \in DOMAIN id_map.map
             THEN id_map.map[dataset[t]]
        ELSE dataset[t]]

\* anonymize_dicom_tags: what it adds to missing_ids
anonymize_missing(dataset, id_map) ==
    IF "PatientID" \in DOMAIN dataset /\ Truthy(id_map)
       /\ dataset["PatientID"] \notin DOMAIN id_map.map
    THEN {dataset["PatientID"]} ELSE {}

\* the guard of copy_dicom_image around the call: "if anonymize or id_map"
AnonRequested(anonymize, id_map) == anonymize \/ Truthy(id_map)

----------------------------------------------------------------------------
(* Paths *)

\* characters pathvalidate.sanitize_filepath strips from a path component
InvalidPathChars == {"?", "*", "<", ">", "|", ":", "\""}

RECURSIVE StripChars(_, _)
StripChars(s, bad) ==
    IF s = <<>> THEN <<>>
    ELSE IF Head(s) \in bad THEN StripChars(Tail(s), bad)
    ELSE <<Head(s)>> \o StripChars(Tail(s), bad)

\* sanitize_filepath(path, platform='auto') on a path held as its components
sanitize_filepath(path) ==
    LET clean == [i \in 1..Len(path) |-> StripChars(path[i], InvalidPathChars)]
    IN  SelectSeq(clean, LAMBDA c : c # <<>>)

\* os.path.join(dest_base_dir, ...): the output root is one component
DestBase == <<"o", "u", "t">>

----------------------------------------------------------------------------
(* DICOMDIR_creation_tool.py *)

CounterWidth == 4
ImageWidth == 6

\* f"{prefix}{counter:d}"
format_counter_unpadded(counter, prefix, length) == prefix \o Digits(counter)

\* format_counter(counter, prefix, length) = f"{prefix}{counter:0{length}d}"
format_counter(counter, prefix, length) == prefix \o ZeroPad(Digits(counter), length)

\* "if key not in counter: counter[key] = len(counter) + 1"
AssignAlways(counter, key) ==
    [k \in DOMAIN counter \cup {key} |->
        IF k = key THEN Cardinality(DOMAIN counter) + 1 ELSE counter[k]]

AssignOnFirstSight(counter, key) ==
    IF key \in DOMAIN counter THEN counter
    ELSE counter @@ (key :> Cardinality(DOMAIN counter) + 1)

\* get_date_id: the registry it leaves, and the token it returns
date_counter_after(patient_id, study_date) ==
    AssignOnFirstSight(date_counter, <<patient_id, study_date>>)

get_date_id_no_lookup(patient_id, study_date) ==
    format_counter(Cardinality(DOMAIN date_counter) + 1, <<"D", "A", "T">>, CounterWidth)

get_date_id(patient_id, study_date) ==
    format_counter(date_counter_after(patient_id, study_date)[<<patient_id, study_date>>],
                   <<"D", "A", "T">>, CounterWidth)

\* get_sequence_id: the registry it leaves, and the token it returns
sequence_counter_after(patient_id, study_date, series_number) ==
    AssignOnFirstSight(sequence_counter, <<patient_id, study_date, series_number>>)

get_sequence_id(patient_id, study_date, series_number) ==
    format_counter(
        sequence_counter_after(patient_id, study_date, series_number)
            [<<patient_id, study_date, series_number>>],
        <<"S", "E", "Q">>, CounterWidth)

\* get_image_filename: the registry it leaves, and the name it returns
image_counter_after(directory) ==
    LET c == IF directory \in DOMAIN image_counter THEN image_counter
             ELSE image_counter @@ (directory :> 0)
    IN  [c EXCEPT ![directory] = @ + 1]

get_image_filename(directory) ==
    <<"I", "M">> \o ZeroPad(Digits(image_counter_after(directory)[directory]), ImageWidth)

\* dest_directory of copy_dicom_image
dd_dest_directory(patient_id, dat_id, seq_id) ==
    sanitize_filepath(<<DestBase, patient_id, <<"d", "i", "c", "o", "m">>, dat_id, seq_id>>)

\* the input files of a run: an extension, whether dcmread succeeds, the dataset
DDPatientIds == {Absent, <<"A">>, <<"A", "?">>}
DDStudies == {<<<<"1">>, 1>>, <<<<"1">>, 2>>, <<<<"2">>, 1>>}

DDDataset(p, s) ==
    Opt("PatientID", p) @@ ("PatientName" :> <<"N">>) @@ ("PatientBirthDate" :> <<"D">>)
        @@ ("StudyDate" :> s[1]) @@ ("SeriesNumber" :> s[2])

DDDatasets ==
    { DDDataset(<<"A">>, s) : s \in DDStudies }
    \cup { DDDataset(p, <<<<"1">>, 1>>) : p \in DDPatientIds }

DDSomeDataset == CHOOSE ds \in DDDatasets : TRUE

DDInputs ==
    [raster : {FALSE}, readable : {TRUE}, ds : DDDatasets]
    \cup {[raster |-> TRUE, readable |-> TRUE, ds |-> DDSomeDataset],
          [raster |-> FALSE, readable |-> FALSE, ds |-> DDSomeDataset]}

\* the correlation maps a run may be given
DDIdMaps == {IdMapNone, IdMapOf(EmptyFcn), IdMapOf(<<"A">> :> <<"A", "?">>)}

NoLog == {<<"<no file>">>}

NoRun == [files |-> <<>>, written |-> {}, same_root |-> FALSE, ran |-> FALSE]

\* the module globals when the script starts: "date_counter = {}", ...
globals_carried_over(previous) == previous

globals_at_start(previous) == EmptyFcn

DDInit ==
    /\ dd_anonymize \in BOOLEAN
    /\ dd_id_map \in DDIdMaps
    /\ date_counter = EmptyFcn
    /\ sequence_counter = EmptyFcn
    /\ image_counter = EmptyFcn
    /\ dd_missing_ids = {}
    /\ dd_written = {}
    /\ dd_nfiles = 0
    /\ dd_files = <<>>
    /\ dd_fs = {}
    /\ dd_first = NoRun
    /\ dd_pc = "sorting"
    /\ dd_logfile = NoLog

\* copy_directory hands file to copy_dicom_image next: any file in a first run,
\* the same files in the same order when the tool is run again on the input tree
DDEnumerates(file) ==
    /\ dd_pc = "sorting"
    /\ IF dd_first.ran
       THEN dd_nfiles < Len(dd_first.files) /\ file = dd_first.files[dd_nfiles + 1]
       ELSE dd_nfiles < MaxFiles

\* copy_dicom_image on a raster image or on a file dcmread rejects: returns early
DDSkipFile(file) ==
    /\ DDEnumerates(file)
    /\ file.raster \/ ~file.readable
    /\ dd_nfiles' = dd_nfiles + 1
    /\ dd_files' = Append(dd_files, file)
    /\ UNCHANGED <<st_vars, ft_vars, mp_vars, su_vars, rg_vars, sz_vars, bt_vars>>
    /\ UNCHANGED <<dd_anonymize, dd_id_map, date_counter, sequence_counter, image_counter,
                   dd_missing_ids, dd_written, dd_fs, dd_first, dd_pc, dd_logfile>>

\* copy_dicom_image on a DICOM file, whole
DDCopyDicomImage(file) ==
    /\ DDEnumerates(file)
    /\ ~file.raster /\ file.readable
    /\ LET anon == AnonRequested(dd_anonymize, dd_id_map)
           dataset == IF anon THEN anonymize_dicom_tags(file.ds, dd_id_map) ELSE file.ds
           patient_id == get_dicom_attribute(dataset, "PatientID")
           study_date == get_dicom_attribute(dataset, "StudyDate")
           series_number == get_dicom_attribute(dataset, "SeriesNumber")
           dat_id == get_date_id(patient_id, study_date)
           seq_id == get_sequence_id(patient_id, study_date, series_number)
           dest_directory == dd_dest_directory(patient_id, dat_id, seq_id)
           image_filename == get_image_filename(dest_directory)
       IN  /\ dd_missing_ids' =
                  dd_missing_ids \cup (IF anon THEN anonymize_missing(file.ds, dd_id_map) ELSE {})
           /\ date_counter' = date_counter_after(patient_id, study_date)
           /\ sequence_counter' = sequence_counter_after(patient_id, study_date, series_number)
           /\ image_counter' = image_counter_after(dest_directory)
           /\ dd_written' = dd_written \cup
                  {[n |-> dd_nfiles + 1, src |-> file.ds, dataset |-> dataset,
                    patient_id |-> patient_id, study_date |-> study_date,
                    series_number |-> series_number, dat_id |-> dat_id, seq_id |-> seq_id,
                    dir |-> dest_directory, name |-> image_filename,
                    existed |-> <<dest_directory, image_filename>> \in dd_fs]}
           /\ dd_fs' = dd_fs \cup {<<dest_directory, image_filename>>}
    /\ dd_nfiles' = dd_nfiles + 1
    /\ dd_files' = Append(dd_files, file)
    /\ UNCHANGED <<st_vars, ft_vars, mp_vars, su_vars, rg_vars, sz_vars, bt_vars>>
    /\ UNCHANGED <<dd_anonymize, dd_id_map, dd_first, dd_pc, dd_logfile>>

\* main after sort_dicom: the log is written only when missing_ids is non-empty
\* (create_dicomdir_for_subjects then runs the external dcmmkdir per subject)
DDFinish ==
    /\ dd_pc = "sorting"
    /\ dd_first.ran => dd_nfiles = Len(dd_first.files)
    /\ dd_pc' = "done"
    /\ dd_logfile' = IF dd_missing_ids # {} THEN dd_missing_ids ELSE dd_logfile
    /\ UNCHANGED <<st_vars, ft_vars, mp_vars, su_vars, rg_vars, sz_vars, bt_vars>>
    /\ UNCHANGED <<dd_anonymize, dd_id_map, date_counter, sequence_counter, image_counter,
                   dd_missing_ids, dd_written, dd_nfiles, dd_files, dd_fs, dd_first>>

\* the tool is started again with the same arguments on the same input tree, into
\* the same output root or into an empty one: a new process, whose module globals
\* are the ones the script sets when it starts
DDRunAgain(same_root) ==
    /\ dd_pc = "done"
    /\ ~dd_first.ran
    /\ dd_first' = [files |-> dd_files, written |-> dd_written, same_root |-> same_root,
                    ran |-> TRUE]
    /\ date_counter' = globals_at_start(date_counter)
    /\ sequence_counter' = globals_at_start(sequence_counter)
    /\ image_counter' = globals_at_start(image_counter)
    /\ dd_missing_ids' = {}
    /\ dd_written' = {}
    /\ dd_nfiles' = 0
    /\ dd_files' = <<>>
    /\ dd_fs' = IF same_root THEN dd_fs ELSE {}
    /\ dd_pc' = "sorting"
    /\ UNCHANGED <<st_vars, ft_vars, mp_vars, su_vars, rg_vars, sz_vars, bt_vars>>
    /\ UNCHANGED <<dd_anonymize, dd_id_map, dd_logfile>>

DDNext ==
    \/ \E file \in DDInputs : DDSkipFile(file)
    \/ \E file \in DDInputs : DDCopyDicomImage(file)
    \/ DDFinish
    \/ \E same_root \in BOOLEAN : DDRunAgain(same_root)

----------------------------------------------------------------------------
(* dicom_sorting_tool.py *)

\* the last "." of a name that is not one of its leading dots, or 0
LastDot(s) ==
    LET dots == {i \in 1..Len(s) : s[i] = "." /\ \E j \in 1..(i - 1) : s[j] # "."}
    IN  IF dots = {} THEN 0 ELSE CHOOSE i \in dots : \A j \in dots : j <= i

\* os.path.splitext(filename): <<base_name, extension>>
splitext(filename) ==
    IF LastDot(filename) = 0 THEN <<filename, <<>>>>
    ELSE <<SubSeq(filename, 1, LastDot(filename) - 1),
           SubSeq(filename, LastDot(filename), Len(filename))>>

\* generate_unique_filename, the loop body: f"{base_name}_{counter}{extension}"
unique_candidate(filename, counter) ==
    splitext(filename)[1] \o <<"_">> \o Digits(counter) \o splitext(filename)[2]

\* str.replace(' ', '_').replace('.', '_').replace('*', '.')
RECURSIVE ReplaceStarLast(_)
ReplaceStarLast(s) ==
    IF s = <<>> THEN <<>>
    ELSE IF Head(s) \in {" ", "."} THEN <<"_">> \o ReplaceStarLast(Tail(s))
    ELSE IF Head(s) = "*" THEN <<".">> \o ReplaceStarLast(Tail(s))
    ELSE <<Head(s)>> \o ReplaceStarLast(Tail(s))

\* str.replace(' ', '_').replace('*', '').replace('.', '_')
RECURSIVE ReplaceChars(_)
ReplaceChars(s) ==
    IF s = <<>> THEN <<>>
    ELSE IF Head(s) \in {" ", "."} THEN <<"_">> \o ReplaceChars(Tail(s))
    ELSE IF Head(s) = "*" THEN ReplaceChars(Tail(s))
    ELSE <<Head(s)>> \o ReplaceChars(Tail(s))

SeriesInvalidChars == {"<", ">", ":", "\"", "/", "\\", "|", "?", "*"}

\* sanitize_series_description
sanitize_series_description(description) ==
    StripChars(StripChars(ReplaceChars(description), SeriesInvalidChars), InvalidPathChars)

\* dest_directory of copy_dicom_image: '%PatientID%/%StudyDate%/%SeriesDescription%'
st_dest_directory(dataset) ==
    sanitize_filepath(<<DestBase,
                        get_dicom_attribute(dataset, "PatientID"),
                        get_dicom_attribute(dataset, "StudyDate"),
                        sanitize_series_description(
                            get_dicom_attribute(dataset, "SeriesDescription"))>>)

SortNames == {<<"a", ".", "d">>, <<"a", "_", "1", ".", "d">>}

SortDatasets ==
    { Opt("PatientID", d[1]) @@ Opt("PatientName", d[2]) @@ Opt("PatientBirthDate", d[3])
        @@ ("StudyDate" :> <<"1">>) @@ ("SeriesDescription" :> <<"T", " ", "1", ".">>)
      : d \in {<<<<"A">>, <<"N">>, <<"D">>>>,
               <<<<"B">>, <<"N">>, Absent>>,
               <<Absent, Absent, <<"D">>>>} }

SortSomeDataset == CHOOSE ds \in SortDatasets : TRUE

SortInputs ==
    [name : SortNames, raster : {FALSE}, readable : {TRUE}, ds : SortDatasets]
    \cup {[name |-> <<"a", ".", "d">>, raster |-> TRUE, readable |-> TRUE,
           ds |-> SortSomeDataset],
          [name |-> <<"a", ".", "d">>, raster |-> FALSE, readable |-> FALSE,
           ds |-> SortSomeDataset]}

SortIdMaps == {IdMapNone, IdMapOf(EmptyFcn), IdMapOf(<<"A">> :> <<"B">>)}

SortFileIds == 1..NumSortFiles
Workers == 1..NumWorkers

NoName == <<>>

SortInit ==
    /\ st_anonymize \in BOOLEAN
    /\ st_id_map \in SortIdMaps
    /\ st_files \in [SortFileIds -> SortInputs]
    /\ st_task = [f \in SortFileIds |->
                    [pc |-> "queued", w |-> 0, counter |-> 1, new_filename |-> NoName]]
    /\ st_fs = EmptyFcn
    /\ st_worker_missing = [w \in Workers |-> {}]
    /\ st_missing_ids = {}
    /\ st_parent = "waiting"
    /\ st_logfile = NoLog

Finished(f) == st_task[f].pc \in {"done", "raised"}
Free(w) == \A f \in SortFileIds : st_task[f].w = w => Finished(f)

\* the pool's workers are identical processes: the free worker that takes the next
\* call is taken to be the lowest-numbered one
Idle(w) == Free(w) /\ \A v \in Workers : v < w => ~Free(v)

\* the dataset copy_dicom_image holds after lines 74-83
SortDataset(f) ==
    IF AnonRequested(st_anonymize, st_id_map)
    THEN anonymize_dicom_tags(st_files[f].ds, st_id_map)
    ELSE st_files[f].ds

SortPath(f) == st_dest_directory(SortDataset(f)) \o <<st_task[f].new_filename>>

\* an idle worker takes the next queued call; copy_dicom_image returns at once on a
\* raster image or a file dcmread rejects
SortSkip(f, w) ==
    /\ st_task[f].pc = "queued"
    /\ \A g \in SortFileIds : g < f => st_task[g].pc # "queued"
    /\ Idle(w)
    /\ st_files[f].raster \/ ~st_files[f].readable
    /\ st_task' = [st_task EXCEPT ![f].pc = "done", ![f].w = w]
    /\ UNCHANGED <<dd_vars, ft_vars, mp_vars, su_vars, rg_vars, sz_vars, bt_vars>>
    /\ UNCHANGED <<st_anonymize, st_id_map, st_files, st_fs, st_worker_missing,
                   st_missing_ids, st_parent, st_logfile>>

\* an idle worker takes the next queued call: copy_dicom_image up to the entry of
\* generate_unique_filename (read, anonymize in the worker's memory, makedirs)
SortBegin(f, w) ==
    /\ st_task[f].pc = "queued"
    /\ \A g \in SortFileIds : g < f => st_task[g].pc # "queued"
    /\ Idle(w)
    /\ ~st_files[f].raster /\ st_files[f].readable
    /\ st_worker_missing' =
           [st_worker_missing EXCEPT ![w] = @ \cup
               (IF AnonRequested(st_anonymize, st_id_map)
                THEN anonymize_missing(st_files[f].ds, st_id_map) ELSE {})]
    /\ st_task' = [st_task EXCEPT ![f] = [pc |-> "resolving", w |-> w, counter |-> 1,
                                          new_filename |-> st_files[f].name]]
    /\ UNCHANGED <<dd_vars, ft_vars, mp_vars, su_vars, rg_vars, sz_vars, bt_vars>>
    /\ UNCHANGED <<st_anonymize, st_id_map, st_files, st_fs, st_missing_ids, st_parent,
                   st_logfile>>

\* one evaluation of the while condition of generate_unique_filename
SortExists(f) ==
    /\ st_task[f].pc = "resolving"
    /\ IF SortPath(f) \in DOMAIN st_fs
       THEN st_task' = [st_task EXCEPT
                ![f].new_filename = unique_candidate(st_files[f].name, st_task[f].counter),
                ![f].counter = @ + 1]
       ELSE st_task' = [st_task EXCEPT ![f].pc = "saving"]
    /\ UNCHANGED <<dd_vars, ft_vars, mp_vars, su_vars, rg_vars, sz_vars, bt_vars>>
    /\ UNCHANGED <<st_anonymize, st_id_map, st_files, st_fs, st_worker_missing,
                   st_missing_ids, st_parent, st_logfile>>

\* dataset.save_as(os.path.join(dest_directory, unique_filename))
SortSave(f) ==
    /\ st_task[f].pc = "saving"
    /\ st_fs' = [p \in DOMAIN st_fs \cup {SortPath(f)} |->
                    IF p = SortPath(f) THEN [from |-> f, ds |-> SortDataset(f)] ELSE st_fs[p]]
    /\ st_task' = [st_task EXCEPT ![f].pc = "done"]
    /\ UNCHANGED <<dd_vars, ft_vars, mp_vars, su_vars, rg_vars, sz_vars, bt_vars>>
    /\ UNCHANGED <<st_anonymize, st_id_map, st_files, st_worker_missing, st_missing_ids,
                   st_parent, st_logfile>>

\* save_as raises: the exception leaves copy_dicom_image and process_file and is
\* stored in the future
SortSaveRaises(f) ==
    /\ st_task[f].pc = "saving"
    /\ st_task' = [st_task EXCEPT ![f].pc = "raised"]
    /\ UNCHANGED <<dd_vars, ft_vars, mp_vars, su_vars, rg_vars, sz_vars, bt_vars>>
    /\ UNCHANGED <<st_anonymize, st_id_map, st_files, st_fs, st_worker_missing,
                   st_missing_ids, st_parent, st_logfile>>

\* copy_directory's loop saw no exception; main writes the log when the parent's
\* missing_ids is non-empty and returns
SortFinish ==
    /\ st_parent = "waiting"
    /\ \A f \in SortFileIds : st_task[f].pc = "done"
    /\ st_logfile' = IF st_missing_ids # {} THEN st_missing_ids ELSE NoLog
    /\ st_parent' = "exit0"
    /\ UNCHANGED <<dd_vars, ft_vars, mp_vars, su_vars, rg_vars, sz_vars, bt_vars>>
    /\ UNCHANGED <<st_anonymize, st_id_map, st_files, st_task, st_fs, st_worker_missing,
                   st_missing_ids>>

\* future.result() re-raises a call's exception in copy_directory; leaving the with
\* block waits for the calls still running, then the exception leaves main
SortAbort ==
    /\ st_parent = "waiting"
    /\ \A f \in SortFileIds : Finished(f)
    /\ \E f \in SortFileIds : st_task[f].pc = "raised"
    /\ st_parent' = "exit1"
    /\ UNCHANGED <<dd_vars, ft_vars, mp_vars, su_vars, rg_vars, sz_vars, bt_vars>>
    /\ UNCHANGED <<st_anonymize, st_id_map, st_files, st_task, st_fs, st_worker_missing,
                   st_missing_ids, st_logfile>>

SortNext ==
    \/ \E f \in SortFileIds, w \in Workers : SortSkip(f, w)
    \/ \E f \in SortFileIds, w \in Workers : SortBegin(f, w)
    \/ \E f \in SortFileIds : SortExists(f)
    \/ \E f \in SortFileIds : SortSave(f)
    \/ \E f \in SortFileIds : SortSaveRaises(f)
    \/ SortFinish
    \/ SortAbort

----------------------------------------------------------------------------
(* dicom_sort_series_filtering.py *)

LowerChars == <<"a", "b", "c", "d", "e", "f", "g", "h", "i", "j", "k", "l", "m",
                "n", "o", "p", "q", "r", "s", "t", "u", "v", "w", "x", "y", "z">>
UpperChars == <<"A", "B", "C", "D", "E", "F", "G", "H", "I", "J", "K", "L", "M",
                "N", "O", "P", "Q", "R", "S", "T", "U", "V", "W", "X", "Y", "Z">>

\* str.upper()
upper(s) ==
    [i \in 1..Len(s) |->
        IF \E k \in 1..Len(LowerChars) : LowerChars[k] = s[i]
        THEN UpperChars[CHOOSE k \in 1..Len(LowerChars) : LowerChars[k] = s[i]]
        ELSE s[i]]

\* "sub in s" on strings
Contains(sub, s) ==
    \E i \in 1..(Len(s) - Len(sub) + 1) : SubSeq(s, i, i + Len(sub) - 1) = sub

\* str.endswith
endswith(s, suffix) ==
    Len(s) >= Len(suffix) /\ SubSeq(s, Len(s) - Len(suffix) + 1, Len(s)) = suffix

SeriesSubstrings == {<<"T", "1">>, <<"T", "2">>, <<"F", "L", "A", "I", "R">>}

should_process_series_case_sensitive(series_desc, series_num) ==
    /\ endswith(series_num, <<"1">>)
    /\ \E sub \in SeriesSubstrings : Contains(sub, series_desc)

should_process_series(series_desc, series_num) ==
    /\ endswith(series_num, <<"1">>)
    /\ \E sub \in SeriesSubstrings : Contains(sub, upper(series_desc))

\* dest_directory of copy_or_move_dicom_image: '%PatientID%/%SeriesDescription%'
ft_dest_directory(dataset) ==
    sanitize_filepath(<<DestBase,
                        get_dicom_attribute(dataset, "PatientID"),
                        get_dicom_attribute(dataset, "SeriesDescription")>>)

\* filename = f"{sop_instance_uid}.dcm"
ft_filename(dataset) ==
    get_dicom_attribute(dataset, "SOPInstanceUID") \o <<".", "d", "c", "m">>

\* "if not force and os.path.exists(dest_file_path)": the file is skipped
ft_ignores_force(force, exists) == exists

ft_destination_guard(force, exists) == ~force /\ exists

\* what shutil.copy2 / shutil.move leave at the destination: the source file's bytes
ft_placed_content(src_ds, dataset) == src_ds

\* shutil.move ahead of the returns
ft_source_moved_first(src_ds, move, placed) == IF move THEN EmptyFcn ELSE src_ds

\* the source file after copy_or_move_dicom_image: shutil.move, reached only past
\* every return, removes it; nothing else writes to it
ft_source_after(src_ds, move, placed) == IF move /\ placed THEN EmptyFcn ELSE src_ds

\* the input files: series (description, number), patient id, pixel payload
FilterSeries ==
    {<<<<"t", "1">>, 11>>,
     <<<<"T", "2", "_", "F", "L", "A", "I", "R">>, 11>>,
     <<<<"T", "1", "_", "M", "P", "R", "A", "G", "E">>, 3>>,
     <<<<"P", "D">>, 11>>}

FilterDataset(pid, sr, px) ==
    ("PatientID" :> pid) @@ ("PatientName" :> <<"N">>) @@ ("PatientBirthDate" :> <<"D">>)
        @@ ("SeriesDescription" :> sr[1]) @@ ("SeriesNumber" :> sr[2])
        @@ ("SOPInstanceUID" :> <<"u">>) @@ ("PixelData" :> px)

FilterDatasets ==
    { FilterDataset(pid, <<<<"t", "1">>, 11>>, px) :
        pid \in {<<"A">>, <<"B">>}, px \in {<<"p">>, <<"q">>} }
    \cup { FilterDataset(<<"A">>, sr, <<"p">>) : sr \in FilterSeries }

FilterSomeDataset == CHOOSE ds \in FilterDatasets : TRUE

FilterInputs ==
    [raster : {FALSE}, readable : {TRUE}, ds : FilterDatasets]
    \cup {[raster |-> TRUE, readable |-> TRUE, ds |-> FilterSomeDataset],
          [raster |-> FALSE, readable |-> FALSE, ds |-> FilterSomeDataset]}

NoContent == EmptyFcn

FilterInit ==
    /\ ft_anonymize \in BOOLEAN
    /\ ft_id_map \in SortIdMaps
    /\ ft_move \in BOOLEAN
    /\ ft_force \in BOOLEAN
    /\ ft_fs = EmptyFcn
    /\ ft_report = {}
    /\ ft_missing_ids = {}
    /\ ft_nfiles = 0
    /\ ft_src = <<>>
    /\ ft_pc = "sorting"
    /\ ft_logfile = NoLog

FilterReport(file, outcome, path, existed, before) ==
    [n |-> ft_nfiles + 1, src |-> file.ds, outcome |-> outcome, path |-> path,
     existed |-> existed, before |-> before,
     after |-> IF path \in DOMAIN ft_fs' THEN ft_fs'[path] ELSE NoContent,
     tree_changed |-> ft_fs' # ft_fs,
     source_removed |-> outcome = "moved"]

\* copy_or_move_dicom_image on a raster image or on a file dcmread rejects
FilterSkipFile(file) ==
    /\ ft_pc = "sorting"
    /\ ft_nfiles < MaxFilterFiles
    /\ file.raster \/ ~file.readable
    /\ ft_fs' = ft_fs
    /\ ft_report' = ft_report \cup
           {FilterReport(file, IF file.raster THEN "raster" ELSE "not_dicom", <<>>, FALSE,
                         NoContent)}
    /\ ft_src' = Append(ft_src, ft_source_after(file.ds, ft_move, FALSE))
    /\ ft_nfiles' = ft_nfiles + 1
    /\ UNCHANGED <<dd_vars, st_vars, mp_vars, su_vars, rg_vars, sz_vars, bt_vars>>
    /\ UNCHANGED <<ft_anonymize, ft_id_map, ft_move, ft_force, ft_missing_ids, ft_pc,
                   ft_logfile>>

\* copy_or_move_dicom_image on a DICOM file, whole
FilterCopyOrMove(file) ==
    /\ ft_pc = "sorting"
    /\ ft_nfiles < MaxFilterFiles
    /\ ~file.raster /\ file.readable
    /\ LET anon == AnonRequested(ft_anonymize, ft_id_map)
           dataset == IF anon THEN anonymize_dicom_tags(file.ds, ft_id_map) ELSE file.ds
           series_desc == get_dicom_attribute(dataset, "SeriesDescription")
           series_num == get_dicom_attribute(dataset, "SeriesNumber")
           dest_file_path == ft_dest_directory(dataset) \o <<ft_filename(dataset)>>
           exists == dest_file_path \in DOMAIN ft_fs
           before == IF exists THEN ft_fs[dest_file_path] ELSE NoContent
       IN  /\ ft_missing_ids' =
                  ft_missing_ids \cup (IF anon THEN anonymize_missing(file.ds, ft_id_map) ELSE {})
           /\ IF ~should_process_series(series_desc, series_num)
              THEN /\ ft_fs' = ft_fs
                   /\ ft_src' = Append(ft_src, ft_source_after(file.ds, ft_move, FALSE))
                   /\ ft_report' = ft_report \cup
                          {FilterReport(file, "criteria", <<>>, FALSE, NoContent)}
              ELSE IF ft_destination_guard(ft_force, exists)
              THEN /\ ft_fs' = ft_fs
                   /\ ft_src' = Append(ft_src, ft_source_after(file.ds, ft_move, FALSE))
                   /\ ft_report' = ft_report \cup
                          {FilterReport(file, "exists", dest_file_path, exists, before)}
              ELSE /\ ft_fs' = [p \in DOMAIN ft_fs \cup {dest_file_path} |->
                                  IF p = dest_file_path
                                  THEN ft_placed_content(file.ds, dataset) ELSE ft_fs[p]]
                   /\ ft_src' = Append(ft_src, ft_source_after(file.ds, ft_move, TRUE))
                   /\ ft_report' = ft_report \cup
                          {FilterReport(file, IF ft_move THEN "moved" ELSE "copied",
                                        dest_file_path, exists, before)}
    /\ ft_nfiles' = ft_nfiles + 1
    /\ UNCHANGED <<dd_vars, st_vars, mp_vars, su_vars, rg_vars, sz_vars, bt_vars>>
    /\ UNCHANGED <<ft_anonymize, ft_id_map, ft_move, ft_force, ft_pc, ft_logfile>>

\* main after sort_dicom
FilterFinish ==
    /\ ft_pc = "sorting"
    /\ ft_pc' = "done"
    /\ ft_logfile' = IF ft_missing_ids # {} THEN ft_missing_ids ELSE NoLog
    /\ UNCHANGED <<dd_vars, st_vars, mp_vars, su_vars, rg_vars, sz_vars, bt_vars>>
    /\ UNCHANGED <<ft_anonymize, ft_id_map, ft_move, ft_force, ft_fs, ft_report,
                   ft_missing_ids, ft_nfiles, ft_src>>

FilterNext ==
    \/ \E file \in FilterInputs : FilterSkipFile(file)
    \/ \E file \in FilterInputs : FilterCopyOrMove(file)
    \/ FilterFinish

----------------------------------------------------------------------------
(* modify_protocol_name.py *)

Whitespace == {" ", "\t", "\n"}

\* str.lstrip() / str.strip()
RECURSIVE lstrip(_)
lstrip(s) == IF s # <<>> /\ Head(s) \in Whitespace THEN lstrip(Tail(s)) ELSE s

RECURSIVE rstrip(_)
rstrip(s) ==
    IF s # <<>> /\ s[Len(s)] \in Whitespace THEN rstrip(SubSeq(s, 1, Len(s) - 1)) ELSE s

strip(s) == rstrip(lstrip(s))

\* getattr(ds, "ProtocolName", "")
current_protocol(ds) == IF "ProtocolName" \in DOMAIN ds THEN ds["ProtocolName"] ELSE <<>>

\* new_protocol = f"{parent_folder}".strip() if current_protocol else parent_folder
new_protocol(parent_folder, ds) ==
    IF current_protocol(ds) # <<>> THEN strip(parent_folder) ELSE parent_folder

\* ds after "ds.ProtocolName = new_protocol"
with_protocol(parent_folder, ds) ==
    [t \in DOMAIN ds \cup {"ProtocolName"} |->
        IF t = "ProtocolName" THEN new_protocol(parent_folder, ds) ELSE ds[t]]

\* what process_file returns when dcmread raises
read_failure_as_success(file_path) == <<file_path, TRUE>>

read_failure_result(file_path) == <<file_path, FALSE>>

\* the loop body "if success: success_count += 1 else: failure_count += 1"
tally_success_only(counts, success) ==
    IF success THEN [counts EXCEPT !.success_count = @ + 1] ELSE counts

tally_after(counts, success) ==
    IF success THEN [counts EXCEPT !.success_count = @ + 1]
    ELSE [counts EXCEPT !.failure_count = @ + 1]

\* "for _, success in results": the counts after the whole loop
RECURSIVE tally(_)
tally(results) ==
    IF results = <<>> THEN [success_count |-> 0, failure_count |-> 0]
    ELSE tally_after(tally(SubSeq(results, 1, Len(results) - 1)), results[Len(results)][2])

\* the input files: the parent folder's basename, whether dcmread(force=True) and
\* save_as succeed, and the dataset
ProtoFolders == {<<"F">>, <<" ", "F">>}
ProtoDatasets ==
    { Opt("ProtocolName", p) @@ ("PixelData" :> <<"p">>) : p \in {Absent, <<>>, <<"P">>} }

ProtoSomeDataset == CHOOSE ds \in ProtoDatasets : TRUE

ProtoInputs ==
    [folder : ProtoFolders, readable : {TRUE}, saves : {TRUE}, ds : ProtoDatasets]
    \cup {[folder |-> <<"F">>, readable |-> FALSE, saves |-> TRUE, ds |-> ProtoSomeDataset],
          [folder |-> <<"F">>, readable |-> TRUE, saves |-> FALSE,
           ds |-> ("ProtocolName" :> <<"P">>) @@ ("PixelData" :> <<"p">>)]}

\* multiprocessing.Pool(processes=multiprocessing.cpu_count())
PoolProcesses == NumWorkers

ProtoFileIds == DOMAIN mp_files

\* main after the walk, with at least one file: the pool is started
ProtoInit ==
    /\ mp_files \in UNION {[1..n -> ProtoInputs] : n \in 0..MaxProtoFiles}
    /\ mp_task = [f \in DOMAIN mp_files |-> "queued"]
    /\ mp_fs = [f \in DOMAIN mp_files |-> mp_files[f].ds]
    /\ mp_results = <<>>
    /\ mp_success_count = 0
    /\ mp_failure_count = 0
    /\ mp_pc = "pool"

\* a pool process is free and f is the next item of the iterable
ProtoTakes(f) ==
    /\ mp_pc = "pool"
    /\ mp_task[f] = "queued"
    /\ \A g \in ProtoFileIds : g < f => mp_task[g] # "queued"
    /\ Cardinality({g \in ProtoFileIds : mp_task[g] = "saving"}) < PoolProcesses

\* "if total_files == 0": main returns before the pool is created
ProtoNoFiles ==
    /\ mp_pc = "pool"
    /\ Len(mp_files) = 0
    /\ mp_pc' = "nofiles"
    /\ UNCHANGED <<dd_vars, st_vars, ft_vars, su_vars, rg_vars, sz_vars, bt_vars>>
    /\ UNCHANGED <<mp_files, mp_task, mp_fs, mp_results, mp_success_count, mp_failure_count>>

\* process_file: dcmread raises, the error is logged and (file_path, False) returned
ProtoReadFails(f) ==
    /\ ProtoTakes(f)
    /\ ~mp_files[f].readable
    /\ mp_task' = [mp_task EXCEPT ![f] = "done"]
    /\ mp_results' = Append(mp_results, read_failure_result(f))
    /\ UNCHANGED <<dd_vars, st_vars, ft_vars, su_vars, rg_vars, sz_vars, bt_vars>>
    /\ UNCHANGED <<mp_files, mp_fs, mp_success_count, mp_failure_count, mp_pc>>

\* process_file: dcmread succeeds and ProtocolName is set in the process's memory
ProtoRead(f) ==
    /\ ProtoTakes(f)
    /\ mp_files[f].readable
    /\ mp_task' = [mp_task EXCEPT ![f] = "saving"]
    /\ UNCHANGED <<dd_vars, st_vars, ft_vars, su_vars, rg_vars, sz_vars, bt_vars>>
    /\ UNCHANGED <<mp_files, mp_fs, mp_results, mp_success_count, mp_failure_count, mp_pc>>

\* process_file: ds.save_as(file_path) in place, (file_path, True) returned
ProtoSave(f) ==
    /\ mp_pc = "pool"
    /\ mp_task[f] = "saving"
    /\ mp_files[f].saves
    /\ mp_fs' = [mp_fs EXCEPT ![f] = with_protocol(mp_files[f].folder, mp_files[f].ds)]
    /\ mp_task' = [mp_task EXCEPT ![f] = "done"]
    /\ mp_results' = Append(mp_results, <<f, TRUE>>)
    /\ UNCHANGED <<dd_vars, st_vars, ft_vars, su_vars, rg_vars, sz_vars, bt_vars>>
    /\ UNCHANGED <<mp_files, mp_success_count, mp_failure_count, mp_pc>>

\* process_file: save_as raises (the file cannot be written), the error is logged
\* and (file_path, False) returned
ProtoSaveRaises(f) ==
    /\ mp_pc = "pool"
    /\ mp_task[f] = "saving"
    /\ ~mp_files[f].saves
    /\ mp_task' = [mp_task EXCEPT ![f] = "done"]
    /\ mp_results' = Append(mp_results, <<f, FALSE>>)
    /\ UNCHANGED <<dd_vars, st_vars, ft_vars, su_vars, rg_vars, sz_vars, bt_vars>>
    /\ UNCHANGED <<mp_files, mp_fs, mp_success_count, mp_failure_count, mp_pc>>

\* list(...) has every result; main counts them and prints the tally
ProtoTally ==
    /\ mp_pc = "pool"
    /\ Len(mp_files) > 0
    /\ Len(mp_results) = Len(mp_files)
    /\ mp_success_count' = tally(mp_results).success_count
    /\ mp_failure_count' = tally(mp_results).failure_count
    /\ mp_pc' = "done"
    /\ UNCHANGED <<dd_vars, st_vars, ft_vars, su_vars, rg_vars, sz_vars, bt_vars>>
    /\ UNCHANGED <<mp_files, mp_task, mp_fs, mp_results>>

ProtoNext ==
    \/ ProtoNoFiles
    \/ \E f \in ProtoFileIds : ProtoReadFails(f)
    \/ \E f \in ProtoFileIds : ProtoRead(f)
    \/ \E f \in ProtoFileIds : ProtoSave(f)
    \/ \E f \in ProtoFileIds : ProtoSaveRaises(f)
    \/ ProtoTally

----------------------------------------------------------------------------
(* dicom_sorting_tool.py: main up to the dispatch, read_id_correlation *)

\* the characters the pattern ',|\s|\t' matches
Separators == {","} \cup Whitespace

\* re.split(r',|\s|\t', s): a new part starts after every single separator
RECURSIVE re_split(_)
re_split(s) ==
    IF s = <<>> THEN << <<>> >>
    ELSE LET rest == re_split(SubSeq(s, 1, Len(s) - 1))
             c == s[Len(s)]
         IN  IF c \in Separators THEN Append(rest, <<>>)
             ELSE [rest EXCEPT ![Len(rest)] = Append(@, c)]

\* parts = re.split(r',|\s|\t', line.strip())
line_parts(line) == re_split(strip(line))

\* read_id_correlation, the loop body: the dict after the line
id_map_after(map, line) ==
    IF Len(line_parts(line)) >= 2
    THEN [k \in DOMAIN map \cup {line_parts(line)[1]} |->
            IF k = line_parts(line)[1] THEN line_parts(line)[2] ELSE map[k]]
    ELSE map

\* read_id_correlation, the loop body: whether "Invalid line format" is printed
line_is_reported(line) == Len(line_parts(line)) < 2

\* the lines a correlation file may hold (without the line end)
CorrLines ==
    { <<"a", ",", "b">>, <<"a", ",", " ", "b">>, <<"a", " ", "b">>, <<"a", "\t", "b">>,
      <<" ", "a", ",", "c">>, <<"a">>, <<"a", ",">>, <<>> }

NoCorr == [given |-> FALSE, readable |-> FALSE, lines |-> <<>>]
UnreadableCorr == [given |-> TRUE, readable |-> FALSE, lines |-> <<>>]

CorrFiles ==
    {NoCorr, UnreadableCorr}
    \cup { [given |-> TRUE, readable |-> TRUE, lines |-> ls] :
             ls \in UNION {[1..n -> CorrLines] : n \in 0..MaxCorrLines} }

\* --dicomin: a directory that may not exist, holding some files when it does
InputDirs ==
    {[exists |-> FALSE, files |-> 0]} \cup [exists : {TRUE}, files : 0..NumSortFiles]

\* main after parse_args
SetupInit ==
    /\ su_dicomin \in InputDirs
    /\ su_corr \in CorrFiles
    /\ su_lineno = 0
    /\ su_id_map = IF su_corr.given THEN IdMapOf(EmptyFcn) ELSE IdMapNone
    /\ su_printed = {}
    /\ su_out_exists \in BOOLEAN
    /\ su_created = FALSE
    /\ su_submitted = 0
    /\ su_pc = "reading"

\* read_id_correlation: open(file_path, 'r') raises and the exception leaves main
SetupOpenFails ==
    /\ su_pc = "reading"
    /\ su_corr.given /\ ~su_corr.readable
    /\ su_pc' = "exit1"
    /\ UNCHANGED <<dd_vars, st_vars, ft_vars, mp_vars, rg_vars, sz_vars, bt_vars>>
    /\ UNCHANGED <<su_dicomin, su_corr, su_lineno, su_id_map, su_printed, su_out_exists,
                   su_created, su_submitted>>

\* read_id_correlation: one iteration of "for line in file"
SetupReadLine ==
    /\ su_pc = "reading"
    /\ su_corr.given /\ su_corr.readable
    /\ su_lineno < Len(su_corr.lines)
    /\ LET line == su_corr.lines[su_lineno + 1]
       IN  /\ su_id_map' = IdMapOf(id_map_after(su_id_map.map, line))
           /\ su_printed' = IF line_is_reported(line) THEN su_printed \cup {su_lineno + 1}
                            ELSE su_printed
    /\ su_lineno' = su_lineno + 1
    /\ UNCHANGED <<dd_vars, st_vars, ft_vars, mp_vars, rg_vars, sz_vars, bt_vars>>
    /\ UNCHANGED <<su_dicomin, su_corr, su_out_exists, su_created, su_submitted, su_pc>>

\* main has id_map (None without --ID_correlation) and calls sort_dicom:
\* "if not os.path.exists(output_dir): os.makedirs(output_dir)"
SetupMakeOutput ==
    /\ su_pc = "reading"
    /\ su_corr.given => (su_corr.readable /\ su_lineno = Len(su_corr.lines))
    /\ su_out_exists' = TRUE
    /\ su_created' = ~su_out_exists
    /\ su_pc' = "sort_dicom"
    /\ UNCHANGED <<dd_vars, st_vars, ft_vars, mp_vars, rg_vars, sz_vars, bt_vars>>
    /\ UNCHANGED <<su_dicomin, su_corr, su_lineno, su_id_map, su_printed, su_submitted>>

\* copy_directory: os.walk yields nothing for a directory that does not exist;
\* one future is submitted per file found
SetupDispatch ==
    /\ su_pc = "sort_dicom"
    /\ su_submitted' = IF su_dicomin.exists THEN su_dicomin.files ELSE 0
    /\ su_pc' = "dispatched"
    /\ UNCHANGED <<dd_vars, st_vars, ft_vars, mp_vars, rg_vars, sz_vars, bt_vars>>
    /\ UNCHANGED <<su_dicomin, su_corr, su_lineno, su_id_map, su_printed, su_out_exists,
                   su_created>>

\* no future was submitted: the loop over as_completed is empty, missing_ids is
\* empty and main returns
SetupNothingToDo ==
    /\ su_pc = "dispatched"
    /\ su_submitted = 0
    /\ su_pc' = "exit0"
    /\ UNCHANGED <<dd_vars, st_vars, ft_vars, mp_vars, rg_vars, sz_vars, bt_vars>>
    /\ UNCHANGED <<su_dicomin, su_corr, su_lineno, su_id_map, su_printed, su_out_exists,
                   su_created, su_submitted>>

SetupNext ==
    \/ SetupOpenFails
    \/ SetupReadLine
    \/ SetupMakeOutput
    \/ SetupDispatch
    \/ SetupNothingToDo

----------------------------------------------------------------------------
(* DICOMDIR_creation_tool.py: the two registries over a run of many series.
   Only lines 83-88 of copy_dicom_image are followed here: the keys of the files
   and the calls of get_date_id and get_sequence_id. The i-th distinct study date
   of the input is named by the number i. *)

RegPatient == <<"A">>

\* sequence_counter after get_sequence_id was called for the series lo..hi of a
\* study in order (the loop of copy_directory, evaluated by halves)
RECURSIVE sequences_after_series(_, _, _, _)
sequences_after_series(counter, study, lo, hi) ==
    IF lo > hi THEN counter
    ELSE IF lo = hi THEN AssignOnFirstSight(counter, <<RegPatient, study, lo>>)
    ELSE LET first_half == sequences_after_series(counter, study, lo, (lo + hi) \div 2)
         IN  IF DOMAIN first_half = {} THEN first_half
             ELSE sequences_after_series(first_half, study, ((lo + hi) \div 2) + 1, hi)

\* what is recorded of a call of get_date_id / get_sequence_id: whether the key
\* was new, the rank of its first sight among the distinct keys seen, and the
\* value and the token the registry holds for it after the call
DateCall(study, new, rank, counter) ==
    [kind |-> "date", new |-> new, rank |-> rank,
     value |-> counter[<<RegPatient, study>>],
     token |-> format_counter(counter[<<RegPatient, study>>], <<"D", "A", "T">>,
                              CounterWidth)]

SeqCall(study, series, new, rank, counter) ==
    [kind |-> "seq", new |-> new, rank |-> rank,
     value |-> counter[<<RegPatient, study, series>>],
     token |-> format_counter(counter[<<RegPatient, study, series>>], <<"S", "E", "Q">>,
                              CounterWidth)]

RegistryInit ==
    /\ dd_anonymize = FALSE
    /\ dd_id_map = IdMapNone
    /\ date_counter = EmptyFcn
    /\ sequence_counter = EmptyFcn
    /\ image_counter = EmptyFcn
    /\ dd_missing_ids = {}
    /\ dd_written = {}
    /\ dd_nfiles = 0
    /\ dd_files = <<>>
    /\ dd_fs = {}
    /\ dd_first = NoRun
    /\ dd_pc = "sorting"
    /\ dd_logfile = NoLog
    /\ rg_seen = [dates |-> 0, seqs |-> 0, later |-> 0]
    /\ rg_last = {}

\* what the registry steps leave alone
RegistryFrame ==
    /\ UNCHANGED <<st_vars, ft_vars, mp_vars, su_vars, sz_vars, bt_vars>>
    /\ UNCHANGED <<dd_anonymize, dd_id_map, image_counter, dd_missing_ids, dd_written,
                   dd_nfiles, dd_files, dd_fs, dd_first, dd_pc, dd_logfile>>

\* os.walk yields the files of the top directory first: a top directory holding
\* BigDirectory files of one study, each of another series
RegistryBigDirectory ==
    /\ rg_seen = [dates |-> 0, seqs |-> 0, later |-> 0]
    /\ date_counter' = date_counter_after(RegPatient, 1)
    /\ sequence_counter' = sequences_after_series(sequence_counter, 1, 1, BigDirectory)
    /\ rg_seen' = [dates |-> 1, seqs |-> BigDirectory, later |-> 0]
    /\ rg_last' = { DateCall(1, new, 1, date_counter')
                    : new \in {b \in BOOLEAN : b \/ BigDirectory > 1} }
                  \cup { SeqCall(1, i, TRUE, i, sequence_counter') : i \in 1..BigDirectory }
    /\ RegistryFrame

\* a further file, of a study not seen before
RegistryNewStudy ==
    /\ rg_seen.later < MaxLater
    /\ LET study == rg_seen.dates + 1
       IN  /\ date_counter' = date_counter_after(RegPatient, study)
           /\ sequence_counter' = sequence_counter_after(RegPatient, study, 1)
           /\ rg_last' = { DateCall(study, TRUE, rg_seen.dates + 1, date_counter'),
                           SeqCall(study, 1, TRUE, rg_seen.seqs + 1, sequence_counter') }
    /\ rg_seen' = [dates |-> rg_seen.dates + 1, seqs |-> rg_seen.seqs + 1,
                   later |-> rg_seen.later + 1]
    /\ RegistryFrame

\* a further file, of a new series of the latest study
RegistryNewSeries ==
    /\ rg_seen.later < MaxLater
    /\ rg_seen.dates > 0
    /\ LET study == rg_seen.dates
           series == rg_seen.seqs + 1
       IN  /\ date_counter' = date_counter_after(RegPatient, study)
           /\ sequence_counter' = sequence_counter_after(RegPatient, study, series)
           /\ rg_last' = { DateCall(study, FALSE, study, date_counter'),
                           SeqCall(study, series, TRUE, rg_seen.seqs + 1,
                                   sequence_counter') }
    /\ rg_seen' = [rg_seen EXCEPT !.seqs = @ + 1, !.later = @ + 1]
    /\ RegistryFrame

\* a further file, of the first series of the first study
RegistryKnownSeries ==
    /\ rg_seen.later < MaxLater
    /\ rg_seen.dates > 0
    /\ date_counter' = date_counter_after(RegPatient, 1)
    /\ sequence_counter' = sequence_counter_after(RegPatient, 1, 1)
    /\ rg_last' = { DateCall(1, FALSE, 1, date_counter'),
                    SeqCall(1, 1, FALSE, 1, sequence_counter') }
    /\ rg_seen' = [rg_seen EXCEPT !.later = @ + 1]
    /\ RegistryFrame

RegistryNext ==
    \/ RegistryBigDirectory
    \/ RegistryNewStudy
    \/ RegistryNewSeries
    \/ RegistryKnownSeries

----------------------------------------------------------------------------
(* dicom_sorting_tool.py: sanitize_series_description and the destination path,
   applied to series descriptions of every shape *)

DescriptionChars == {"T", " ", ".", "*", "/", "?"}

Descriptions == UNION {[1..n -> DescriptionChars] : n \in 0..MaxDescLen}

\* a dataset with the series description d, of a patient whose id needs sanitizing
DescribedDataset(d) ==
    ("PatientID" :> <<"A", "?">>) @@ ("StudyDate" :> <<"1">>) @@ ("SeriesDescription" :> d)

NoResult == [once |-> <<>>, twice |-> <<>>, path |-> <<>>, path_again |-> <<>>]

SanitizeInit ==
    /\ sz_description \in Descriptions
    /\ sz_pc = "input"
    /\ sz_result = NoResult

\* copy_dicom_image lines 85-91 on the dataset, then the same sanitizers applied
\* to what they returned
SanitizeDescription ==
    /\ sz_pc = "input"
    /\ sz_result' =
           [once |-> sanitize_series_description(sz_description),
            twice |-> sanitize_series_description(
                          sanitize_series_description(sz_description)),
            path |-> st_dest_directory(DescribedDataset(sz_description)),
            path_again |-> sanitize_filepath(
                               st_dest_directory(DescribedDataset(sz_description)))]
    /\ sz_pc' = "sanitized"
    /\ UNCHANGED <<dd_vars, st_vars, ft_vars, mp_vars, su_vars, rg_vars, bt_vars>>
    /\ UNCHANGED sz_description

SanitizeNext == SanitizeDescription

----------------------------------------------------------------------------
(* Batch_dcm2bids.py: process_sessions *)

\* the characters of the names, in code point order
CodePoints == DigitChars \o <<"A", "B">>

ord(c) == CHOOSE i \in 1..Len(CodePoints) : CodePoints[i] = c

\* a < b for Python strings
str_lt(a, b) ==
    \/ Len(a) < Len(b) /\ SubSeq(b, 1, Len(a)) = a
    \/ \E i \in 1..Len(a) :
          /\ i <= Len(b)
          /\ SubSeq(a, 1, i - 1) = SubSeq(b, 1, i - 1)
          /\ ord(a[i]) < ord(b[i])

\* sorted(names)
RECURSIVE sorted(_)
sorted(names) ==
    IF names = {} THEN <<>>
    ELSE LET least == CHOOSE x \in names : \A y \in names \ {x} : str_lt(x, y)
         IN  <<least>> \o sorted(names \ {least})

\* str(session_number).zfill(2)
zfill(s, width) == ZeroPad(s, width)

\* session_label = f'ses-{str(session_number).zfill(2)}'
session_label(session_number) == <<"s", "e", "s", "-">> \o zfill(Digits(session_number), 2)

\* "session_number = 1" at the head of every subject
session_number_carried(previous) == previous

session_number_at_subject(previous) == 1

\* the names sourcedata_dir may hold, and the names a subject directory may hold
SubjectNames == {<<"A">>, <<"B">>}
SessionNames == {<<"1">>, <<"1", "0">>, <<"2">>}

NoEntry == [kind |-> "none", dirs |-> {}, files |-> FALSE]
PlainFile == [kind |-> "file", dirs |-> {}, files |-> FALSE]

\* a subject directory: its session directories, and whether it also holds a plain file
SubjectDirs ==
    [kind : {"dir"},
     dirs : {d \in SUBSET SessionNames : Cardinality(d) <= MaxSessionDirs},
     files : BOOLEAN]

SourceTrees == [SubjectNames -> SubjectDirs \cup {NoEntry, PlainFile}]

Header == <<<<"subject">>, <<"session">>, <<"date">>>>

\* [d for d in os.listdir(sourcedata_dir) if os.path.isdir(...)]
subject_dirs(tree) == {d \in DOMAIN tree : tree[d].kind = "dir"}

\* [d for d in os.listdir(subject_dir) if os.path.isdir(...)]
session_dirs(tree, subject) == tree[subject].dirs

BatchInit ==
    /\ bt_tree \in SourceTrees
    /\ bt_studies \in {[exists |-> FALSE, lines |-> <<>>],
                        [exists |-> TRUE, lines |-> <<Header>>],
                        [exists |-> TRUE,
                         lines |-> <<Header, <<<<"A">>, session_label(1), <<"1">>>>>>]}
    /\ bt_subjects = <<>>
    /\ bt_subject = 0
    /\ bt_sessions = <<>>
    /\ bt_session = 0
    /\ bt_session_number = 0
    /\ bt_calls = <<>>
    /\ bt_appended = <<>>
    /\ bt_pc = "start"

BatchFrame == UNCHANGED <<dd_vars, st_vars, ft_vars, mp_vars, su_vars, rg_vars, sz_vars>>

\* process_sessions up to the outer loop: the header, the sorted subjects
BatchStart ==
    /\ bt_pc = "start"
    /\ bt_studies' = IF bt_studies.exists THEN bt_studies
                     ELSE [exists |-> TRUE, lines |-> <<Header>>]
    /\ bt_subjects' = sorted(subject_dirs(bt_tree))
    /\ bt_pc' = "subjects"
    /\ BatchFrame
    /\ UNCHANGED <<bt_tree, bt_subject, bt_sessions, bt_session, bt_session_number,
                   bt_calls, bt_appended>>

\* "for subject in subjects": the next subject, its sorted sessions
BatchNextSubject ==
    /\ bt_pc = "subjects"
    /\ bt_subject < Len(bt_subjects)
    /\ bt_subject' = bt_subject + 1
    /\ bt_sessions' = sorted(session_dirs(bt_tree, bt_subjects[bt_subject + 1]))
    /\ bt_session' = 0
    /\ bt_session_number' = session_number_at_subject(bt_session_number)
    /\ bt_pc' = "sessions"
    /\ BatchFrame
    /\ UNCHANGED <<bt_tree, bt_studies, bt_subjects, bt_calls, bt_appended>>

\* "for session_dir in sessions": the command is built and run; its return code
\* is not looked at
BatchRunConverter(returncode) ==
    /\ bt_pc = "sessions"
    /\ bt_session < Len(bt_sessions)
    /\ bt_session' = bt_session + 1
    /\ LET subject == bt_subjects[bt_subject]
           session_dir == bt_sessions[bt_session + 1]
       IN  bt_calls' = Append(bt_calls,
               [d |-> <<subject, session_dir>>, p |-> subject,
                s |-> session_label(bt_session_number), returncode |-> returncode])
    /\ bt_pc' = "append"
    /\ BatchFrame
    /\ UNCHANGED <<bt_tree, bt_studies, bt_subjects, bt_subject, bt_sessions,
                   bt_session_number, bt_appended>>

\* the converter cannot be started (it is not installed): subprocess.run raises,
\* nothing catches it, and the run ends there
BatchCannotRun ==
    /\ bt_pc = "sessions"
    /\ bt_session < Len(bt_sessions)
    /\ bt_pc' = "raised"
    /\ BatchFrame
    /\ UNCHANGED <<bt_tree, bt_studies, bt_subjects, bt_subject, bt_sessions, bt_session,
                   bt_session_number, bt_calls, bt_appended>>

\* the row of the session is appended to studies.tsv, session_number += 1
BatchAppendRow ==
    /\ bt_pc = "append"
    /\ LET row == <<bt_subjects[bt_subject], session_label(bt_session_number),
                    bt_sessions[bt_session]>>
       IN  /\ bt_studies' = [bt_studies EXCEPT !.lines = Append(@, row)]
           /\ bt_appended' = Append(bt_appended, row)
    /\ bt_session_number' = bt_session_number + 1
    /\ bt_pc' = "sessions"
    /\ BatchFrame
    /\ UNCHANGED <<bt_tree, bt_subjects, bt_subject, bt_sessions, bt_session, bt_calls>>

\* the inner loop is exhausted
BatchSessionsDone ==
    /\ bt_pc = "sessions"
    /\ bt_session = Len(bt_sessions)
    /\ bt_pc' = "subjects"
    /\ BatchFrame
    /\ UNCHANGED <<bt_tree, bt_studies, bt_subjects, bt_subject, bt_sessions, bt_session,
                   bt_session_number, bt_calls, bt_appended>>

\* the outer loop is exhausted: process_sessions returns
BatchReturn ==
    /\ bt_pc = "subjects"
    /\ bt_subject = Len(bt_subjects)
    /\ bt_pc' = "done"
    /\ BatchFrame
    /\ UNCHANGED <<bt_tree, bt_studies, bt_subjects, bt_subject, bt_sessions, bt_session,
                   bt_session_number, bt_calls, bt_appended>>

BatchNext ==
    \/ BatchStart
    \/ BatchNextSubject
    \/ \E returncode \in {0, 1} : BatchRunConverter(returncode)
    \/ BatchCannotRun
    \/ BatchAppendRow
    \/ BatchSessionsDone
    \/ BatchReturn

BatchIdle ==
    /\ bt_tree = [d \in SubjectNames |-> NoEntry]
    /\ bt_studies = [exists |-> FALSE, lines |-> <<>>]
    /\ bt_subjects = <<>>
    /\ bt_subject = 0
    /\ bt_sessions = <<>>
    /\ bt_session = 0
    /\ bt_session_number = 0
    /\ bt_calls = <<>>
    /\ bt_appended = <<>>
    /\ bt_pc = "done"

FilterIdle ==
    /\ ft_anonymize = FALSE
    /\ ft_id_map = IdMapNone
    /\ ft_move = FALSE
    /\ ft_force = FALSE
    /\ ft_fs = EmptyFcn
    /\ ft_report = {}
    /\ ft_missing_ids = {}
    /\ ft_nfiles = 0
    /\ ft_src = <<>>
    /\ ft_pc = "done"
    /\ ft_logfile = NoLog

\* the tool is not running
SortIdle ==
    /\ st_anonymize = FALSE
    /\ st_id_map = IdMapNone
    /\ st_files = <<>>
    /\ st_task = <<>>
    /\ st_fs = EmptyFcn
    /\ st_worker_missing = <<>>
    /\ st_missing_ids = {}
    /\ st_parent = "exit0"
    /\ st_logfile = NoLog

DDIdle ==
    /\ dd_anonymize = FALSE
    /\ dd_id_map = IdMapNone
    /\ date_counter = EmptyFcn
    /\ sequence_counter = EmptyFcn
    /\ image_counter = EmptyFcn
    /\ dd_missing_ids = {}
    /\ dd_written = {}
    /\ dd_nfiles = 0
    /\ dd_files = <<>>
    /\ dd_fs = {}
    /\ dd_first = NoRun
    /\ dd_pc = "done"
    /\ dd_logfile = NoLog

ProtoIdle ==
    /\ mp_files = <<>>
    /\ mp_task = <<>>
    /\ mp_fs = <<>>
    /\ mp_results = <<>>
    /\ mp_success_count = 0
    /\ mp_failure_count = 0
    /\ mp_pc = "done"

SetupIdle ==
    /\ su_dicomin = [exists |-> FALSE, files |-> 0]
    /\ su_corr = NoCorr
    /\ su_lineno = 0
    /\ su_id_map = IdMapNone
    /\ su_printed = {}
    /\ su_out_exists = FALSE
    /\ su_created = FALSE
    /\ su_submitted = 0
    /\ su_pc = "exit0"

RegistryIdle ==
    /\ rg_seen = [dates |-> 0, seqs |-> 0, later |-> 0]
    /\ rg_last = {}

SanitizeIdle ==
    /\ sz_description = <<>>
    /\ sz_pc = "idle"
    /\ sz_result = NoResult

----------------------------------------------------------------------------
(* Claims about DICOMDIR_creation_tool.py, checked under SpecDicomdir *)

DateKey(r) == <<r.patient_id, r.study_date>>
SeqKey(r) == <<r.patient_id, r.study_date, r.series_number>>

Injective(f) == \A a, b \in DOMAIN f : a # b => f[a] # f[b]

\* C1: each registry is a stable injection. Every token get_date_id or
\* get_sequence_id ever returned for a key is the token the registry holds for
\* that key now (a key queried again gets the token of its first sight), and two
\* returned tokens are equal exactly when their keys are equal (distinct
\* (patientId, studyDate) keys, and distinct (patientId, studyDate, seriesNumber)
\* keys, never hold the same token).
C1_RegistryStableInjection ==
    /\ Injective(date_counter)
    /\ Injective(sequence_counter)
    /\ \A r \in dd_written :
        /\ DateKey(r) \in DOMAIN date_counter
        /\ SeqKey(r) \in DOMAIN sequence_counter
        /\ r.dat_id = format_counter(date_counter[DateKey(r)], <<"D", "A", "T">>, CounterWidth)
        /\ r.seq_id = format_counter(sequence_counter[SeqKey(r)], <<"S", "E", "Q">>, CounterWidth)
    /\ \A r1, r2 \in dd_written :
        /\ (DateKey(r1) = DateKey(r2)) <=> (r1.dat_id = r2.dat_id)
        /\ (SeqKey(r1) = SeqKey(r2)) <=> (r1.seq_id = r2.seq_id)

\* a key was queried, then another key, then the first key again
C1_Witness ==
    \E r1, r2, r3 \in dd_written :
        /\ r1.n < r2.n /\ r2.n < r3.n
        /\ SeqKey(r1) = SeqKey(r3)
        /\ DateKey(r1) # DateKey(r2)
        /\ r1.dat_id # r2.dat_id /\ r1.seq_id = r3.seq_id

\* C2: two files placed by copy_dicom_image in one run that have the same
\* (PatientID, StudyDate, SeriesNumber) after anonymization are written under the
\* same DAT/SEQ directory, whatever was processed before or between them.
C2_SameKeySameDirectory ==
    \A r1, r2 \in dd_written : SeqKey(r1) = SeqKey(r2) => r1.dir = r2.dir

\* two files of one key with a file of another series of the same study between
\* them, the two having different patient ids before remapping
C2_Witness ==
    \E r1, r2, r3 \in dd_written :
        /\ r1.n < r2.n /\ r2.n < r3.n
        /\ SeqKey(r1) = SeqKey(r3)
        /\ DateKey(r1) = DateKey(r2) /\ SeqKey(r1) # SeqKey(r2)
        /\ r1.dir = r3.dir /\ r1.dir # r2.dir /\ r1.name # r3.name
        /\ get_dicom_attribute(r1.src, "PatientID") # get_dicom_attribute(r3.src, "PatientID")

\* C7: for every dataset that has a patient id and is anonymized with a supplied
\* correlation map: a mapped old id is replaced by map[oldId]; an unmapped old id
\* is left unchanged and is (and stays) in the unresolved-id set, and the file is
\* still placed in the output tree.
C7_RemapOrRecordUnresolved ==
    \A r \in dd_written :
        (/\ AnonRequested(dd_anonymize, dd_id_map)
         /\ dd_id_map.supplied
         /\ "PatientID" \in DOMAIN r.src)
        => IF r.src["PatientID"] \in DOMAIN dd_id_map.map
           THEN r.dataset["PatientID"] = dd_id_map.map[r.src["PatientID"]]
           ELSE /\ r.dataset["PatientID"] = r.src["PatientID"]
                /\ r.src["PatientID"] \in dd_missing_ids

\* C14: no write of the DICOMDIR tool replaces a file already in the output tree
\* (the tool has no overwrite option): for any sequence of processed files, also
\* in a run whose output root holds the files of an earlier run, the IM?????? name
\* get_image_filename chooses for a directory is never the name of a file
\* already present in that directory.
C14_ImageNameIsNeverTaken ==
    \A r \in dd_written : ~r.existed

----------------------------------------------------------------------------
(* Claims about dicom_sorting_tool.py, checked under SpecSort *)

\* the calls that reached dataset.save_as and returned
Saved(f) == st_task[f].pc = "done" /\ ~st_files[f].raster /\ st_files[f].readable

\* C3: under the uniquify policy a write never overwrites a file that already
\* exists in the destination directory: no step of the run changes or removes the
\* content held under a path of the output tree.
C3_WriteNeverOverwrites ==
    [][\A p \in DOMAIN st_fs : p \in DOMAIN st_fs' /\ st_fs'[p] = st_fs[p]]_vars

\* C4: two pool workers whose input files resolve to the same destination
\* directory and the same proposed filename end, in every interleaving of their
\* existence checks and writes, with two different final filenames.
C4_RacingWorkersGetDifferentNames ==
    \A f, g \in SortFileIds :
        (/\ f # g
         /\ Saved(f) /\ Saved(g)
         /\ st_files[f].name = st_files[g].name
         /\ st_dest_directory(SortDataset(f)) = st_dest_directory(SortDataset(g)))
        => st_task[f].new_filename # st_task[g].new_filename

\* C6: in every file written, name and birth date are cleared (name to the fixed
\* literal, birth date to the empty string) if and only if the field is present
\* and the anonymize flag was given; with only a correlation map the patient id
\* is remapped and name and birth date are as in the input.
C6_ClearedIffAnonymizeRequested ==
    \A p \in DOMAIN st_fs :
        LET src == st_files[st_fs[p].from].ds
            out == st_fs[p].ds
        IN  /\ DOMAIN out = DOMAIN src
            /\ "PatientName" \in DOMAIN src =>
                   out["PatientName"] = IF st_anonymize THEN ANONYMIZED ELSE src["PatientName"]
            /\ "PatientBirthDate" \in DOMAIN src =>
                   out["PatientBirthDate"] =
                       IF st_anonymize THEN <<>> ELSE src["PatientBirthDate"]
            /\ ("PatientID" \in DOMAIN src /\ st_id_map.supplied
                   /\ src["PatientID"] \in DOMAIN st_id_map.map) =>
                   out["PatientID"] = st_id_map.map[src["PatientID"]]

\* the old ids of the processed files that the correlation map has no entry for
SortUnresolved ==
    { st_files[f].ds["PatientID"] :
        f \in { g \in SortFileIds :
                  /\ st_task[g].pc # "queued"
                  /\ ~st_files[g].raster /\ st_files[g].readable
                  /\ "PatientID" \in DOMAIN st_files[g].ds
                  /\ st_files[g].ds["PatientID"] \notin DOMAIN st_id_map.map } }

\* C8: at the end of a run given a correlation map with entries, if a processed
\* file had a patient id with no entry in the map, the unresolved-id log is
\* written and holds every such old id.
C8_UnresolvedIdsAreLogged ==
    (st_parent = "exit0" /\ Truthy(st_id_map) /\ SortUnresolved # {})
    => (st_logfile # NoLog /\ SortUnresolved \subseteq st_logfile)

\* C10: an exception raised while one file is processed never aborts the run:
\* the parent does not end with an error status (and so reaches its end-of-run
\* steps) although a call raised.
C10_PerFileExceptionNeverAborts ==
    (\E f \in SortFileIds : st_task[f].pc = "raised") => st_parent # "exit1"

----------------------------------------------------------------------------
(* Claims about dicom_sort_series_filtering.py, checked under SpecFilter *)

Placed(r) == r.outcome \in {"copied", "moved"}

\* C5: guarded overwrite. A file whose destination exists is, without force,
\* reported as skipped with the destination (and the whole output tree, and the
\* source) left unchanged; with force, the destination is overwritten and then
\* holds the source file.
C5_GuardedOverwrite ==
    \A r \in ft_report :
        r.existed =>
            IF ~ft_force
            THEN /\ r.outcome = "exists"
                 /\ r.after = r.before
                 /\ ~r.tree_changed
                 /\ ~r.source_removed
            ELSE /\ Placed(r)
                 /\ r.after = r.src
                 /\ r.path \in DOMAIN ft_fs

\* without force, a file met an existing destination whose content differs from it
C5_Witness ==
    /\ ~ft_force
    /\ \E r \in ft_report :
        /\ r.existed /\ r.outcome = "exists"
        /\ r.before # r.src
        /\ r.path \in DOMAIN ft_fs /\ ft_fs[r.path] = r.before

\* C9: whenever the pipeline mutated the dataset of a file, the file placed in the
\* output tree is the re-serialized mutated dataset; with anonymization
\* requested every output file has the anonymized field values.
C9_PlacedFileIsMutatedDataset ==
    /\ \A r \in ft_report :
        (Placed(r) /\ AnonRequested(ft_anonymize, ft_id_map))
        => r.after = anonymize_dicom_tags(r.src, ft_id_map)
    /\ \A p \in DOMAIN ft_fs :
        AnonRequested(ft_anonymize, ft_id_map)
        => /\ "PatientName" \in DOMAIN ft_fs[p] => ft_fs[p]["PatientName"] = ANONYMIZED
           /\ "PatientBirthDate" \in DOMAIN ft_fs[p] => ft_fs[p]["PatientBirthDate"] = <<>>

\* the series of the file a report is about, as copy_or_move_dicom_image reads it
SeriesDesc(r) == get_dicom_attribute(r.src, "SeriesDescription")
SeriesNum(r) == get_dicom_attribute(r.src, "SeriesNumber")

\* the number ends in the digit 1 and the description holds, in any case, one of
\* T1, T2, FLAIR
MeetsCriteria(desc, num) ==
    /\ num # <<>> /\ num[Len(num)] = "1"
    /\ \E i, j \in 1..Len(desc) :
           upper(SubSeq(desc, i, j)) \in {<<"T", "1">>, <<"T", "2">>, <<"F", "L", "A", "I", "R">>}

\* C16: should_process_series is true exactly when the series number ends in the
\* digit 1 and the upper-cased description contains one of T1, T2, FLAIR, so
\* ("T1_MPRAGE", "3") is excluded and ("T2_FLAIR", "11") is included; a decoded
\* file is skipped for its series exactly when the predicate fails, and then
\* nothing is written and the source stays.
C16_SeriesPredicateDecides ==
    /\ ~should_process_series(<<"T", "1", "_", "M", "P", "R", "A", "G", "E">>, <<"3">>)
    /\ should_process_series(<<"T", "2", "_", "F", "L", "A", "I", "R">>, <<"1", "1">>)
    /\ \A r \in ft_report :
          /\ r.outcome \notin {"raster", "not_dicom"} =>
                /\ should_process_series(SeriesDesc(r), SeriesNum(r))
                       <=> MeetsCriteria(SeriesDesc(r), SeriesNum(r))
                /\ r.outcome = "criteria" <=> ~MeetsCriteria(SeriesDesc(r), SeriesNum(r))
          /\ r.outcome = "criteria" =>
                (~r.tree_changed /\ ~r.source_removed /\ r.path \notin DOMAIN ft_fs)

\* one run met T1_MPRAGE with number 3 and skipped it, and met T2_FLAIR with
\* number 11 and a lower-case t1 with number 11 and placed both
C16_Witness ==
    \E r1, r2 \in ft_report :
        /\ SeriesDesc(r1) = <<"T", "1", "_", "M", "P", "R", "A", "G", "E">>
        /\ SeriesNum(r1) = <<"3">> /\ r1.outcome = "criteria"
        /\ SeriesDesc(r2) \in {<<"T", "2", "_", "F", "L", "A", "I", "R">>, <<"t", "1">>}
        /\ SeriesNum(r2) = <<"1", "1">> /\ Placed(r2)

\* the source file is where it was, with the bytes it had
SourceIntact(r) == ft_src[r.n] = r.src

\* the source file is gone
SourceRemoved(r) == ft_src[r.n] = NoContent

\* C21: in the filtering variant a file skipped for any reason (raster-image
\* extension, decode failure, series predicate not met, destination exists
\* without force) changes neither the output tree nor its source file, also in
\* move mode; the source file is removed only in move mode and only for a file
\* that was placed at its destination.
C21_SkippedFileChangesNothing ==
    \A r \in ft_report :
        /\ r.outcome \in {"raster", "not_dicom", "criteria", "exists"} \/ Placed(r)
        /\ ~Placed(r) => (~r.tree_changed /\ SourceIntact(r))
        /\ SourceRemoved(r) =>
              (ft_move /\ Placed(r) /\ r.path \in DOMAIN ft_fs /\ r.after = r.src)
        /\ ~SourceRemoved(r) => SourceIntact(r)

\* in move mode one file was moved, so that its source is gone, and the next one
\* was skipped because its destination existed, so that its source stayed
C21_Witness ==
    /\ ft_move /\ ~ft_force
    /\ \E r1, r2 \in ft_report :
          /\ r1.outcome = "moved" /\ SourceRemoved(r1)
          /\ r2.outcome = "exists" /\ r2.n > r1.n
          /\ SourceIntact(r2) /\ r2.path = r1.path /\ ft_fs[r2.path] = r1.src

----------------------------------------------------------------------------
(* Claims about modify_protocol_name.py, checked under SpecProtocol *)

\* the positions of results that belong to file f
OutcomesOf(f) == {i \in 1..Len(mp_results) : mp_results[i][1] = f}

\* C11: when the run completes, success_count + failure_count is the number of
\* enumerated files and every enumerated file contributed exactly one outcome,
\* counted as a success or as a failure according to that outcome, whatever
\* order the pool processes finished in.
C11_TallyCountsEveryFileOnce ==
    mp_pc = "done" =>
        /\ mp_success_count + mp_failure_count = Len(mp_files)
        /\ \A f \in ProtoFileIds : Cardinality(OutcomesOf(f)) = 1
        /\ mp_success_count =
               Cardinality({f \in ProtoFileIds : \E i \in OutcomesOf(f) : mp_results[i][2]})
        /\ mp_failure_count =
               Cardinality({f \in ProtoFileIds : \E i \in OutcomesOf(f) : ~mp_results[i][2]})

\* a completed run of two files where the second file finished first, one
\* succeeded and one failed
C11_Witness ==
    /\ mp_pc = "done"
    /\ Len(mp_files) = 2
    /\ mp_results[1][1] = 2
    /\ mp_results[1][2] # mp_results[2][2]

\* the files dcmread rejects
Undecodable == {f \in ProtoFileIds : ~mp_files[f].readable}

\* what is on disk after process_file handled the file's dataset alone
ProcessedAlone(file) ==
    [t \in DOMAIN file.ds \cup {"ProtocolName"} |->
        IF t # "ProtocolName" THEN file.ds[t]
        ELSE IF "ProtocolName" \in DOMAIN file.ds /\ file.ds[t] # <<>>
             THEN strip(file.folder) ELSE file.folder]

FollowedBy(p, q, s) ==
    \E i, j \in 1..(Len(s) + 1) :
        /\ i + Len(p) <= j
        /\ j + Len(q) - 1 <= Len(s)
        /\ SubSeq(s, i, i + Len(p) - 1) = p
        /\ SubSeq(s, j, j + Len(q) - 1) = q

\* C18: process_file appends the parent folder's basename to the existing
\* Protocol Name: a saved file that had a non-empty ProtocolName P in folder F
\* holds a ProtocolName containing P followed by F; a saved file whose
\* ProtocolName was absent or empty holds F.
C18_FolderAppendedToProtocolName ==
    \A f \in ProtoFileIds :
        (mp_task[f] = "done" /\ mp_files[f].readable /\ mp_files[f].saves)
        => IF current_protocol(mp_files[f].ds) # <<>>
           THEN FollowedBy(mp_files[f].ds["ProtocolName"], strip(mp_files[f].folder),
                           mp_fs[f]["ProtocolName"])
           ELSE mp_fs[f]["ProtocolName"] = mp_files[f].folder

----------------------------------------------------------------------------
(* Claims about main and read_id_correlation of dicom_sorting_tool.py, checked
   under SpecSetup *)

\* a setup-level failure: the input root does not exist, or the correlation file
\* cannot be read
SetupFailure == ~su_dicomin.exists \/ (su_corr.given /\ ~su_corr.readable)

\* C13: a setup-level failure is fatal and stops the run before any file is
\* dispatched and before anything is created in the output tree: with a missing
\* input root, or an unreadable correlation file, no future is submitted, the run
\* creates nothing under the output root and it does not end normally.
C13_SetupFailureIsFatal ==
    SetupFailure => (su_submitted = 0 /\ ~su_created /\ su_pc # "exit0")

\* the tokens of a line: its maximal runs of characters that are no separator
RECURSIVE Tokens(_)
Tokens(s) ==
    IF s = <<>> THEN <<>>
    ELSE LET before == Tokens(SubSeq(s, 1, Len(s) - 1))
             c == s[Len(s)]
         IN  IF c \in Separators THEN before
             ELSE IF Len(s) > 1 /\ s[Len(s) - 1] \notin Separators
                  THEN [before EXCEPT ![Len(before)] = Append(@, c)]
             ELSE Append(before, <<c>>)

\* the lines read so far that hold an oldId and a newId
MappingLines == {i \in 1..su_lineno : Len(Tokens(su_corr.lines[i])) >= 2}

\* C17: read_id_correlation maps, for every line holding an oldId and a newId
\* separated by a comma, whitespace or a tab (also a comma followed by a space),
\* oldId to that newId, the two being the first two tokens of the line (a later
\* line for the same oldId replaces an earlier one); a line with fewer than two
\* tokens is reported and skipped (it adds no entry), and the load goes on.
C17_FirstTwoTokensAreMapped ==
    (su_corr.given /\ su_corr.readable) =>
        /\ \A i \in MappingLines :
              LET t == Tokens(su_corr.lines[i])
              IN  (\A j \in MappingLines : j > i => Tokens(su_corr.lines[j])[1] # t[1])
                  => (t[1] \in DOMAIN su_id_map.map /\ su_id_map.map[t[1]] = t[2])
        /\ DOMAIN su_id_map.map = {Tokens(su_corr.lines[i])[1] : i \in MappingLines}
        /\ su_printed = (1..su_lineno) \ MappingLines
        /\ su_pc # "reading" => su_lineno = Len(su_corr.lines)

----------------------------------------------------------------------------
(* Claims about the registries over a long run, checked under SpecRegistry *)

\* the number a string of decimal digits stands for
RECURSIVE Decimal(_)
Decimal(digits) ==
    IF digits = <<>> THEN 0
    ELSE 10 * Decimal(SubSeq(digits, 1, Len(digits) - 1))
         + (CHOOSE d \in 0..9 : DigitChars[d + 1] = digits[Len(digits)])

AllDigits(s) == \A i \in 1..Len(s) : \E d \in 1..10 : DigitChars[d] = s[i]

Prefix(call) == IF call.kind = "date" THEN <<"D", "A", "T">> ELSE <<"S", "E", "Q">>

\* the token is the prefix followed by decimal digits that stand for the value
TokenHoldsValue(call) ==
    /\ Len(call.token) > 3
    /\ SubSeq(call.token, 1, 3) = Prefix(call)
    /\ AllDigits(SubSeq(call.token, 4, Len(call.token)))
    /\ Decimal(SubSeq(call.token, 4, Len(call.token))) = call.value

\* values are assigned on first sight as 1, 2, 3, ... with no gap: the k-th
\* distinct key gets k and keeps it, and a call for a known key assigns nothing
\* (each registry holds as many keys as distinct keys were seen)
AssignedInOrderOfFirstSight ==
    /\ Cardinality(DOMAIN date_counter) = rg_seen.dates
    /\ Cardinality(DOMAIN sequence_counter) = rg_seen.seqs
    /\ \A call \in rg_last : call.value = call.rank

\* C19 as stated: counter values are assigned on first observation of a key as
\* 1, 2, 3, ... with no gaps, and every token returned is the fixed prefix
\* followed by exactly 4 zero-padded digits, for every number of distinct keys
\* seen in a run.
C19_ExactlyFourDigits ==
    /\ AssignedInOrderOfFirstSight
    /\ \A call \in rg_last :
          TokenHoldsValue(call) /\ Len(call.token) = 3 + CounterWidth

\* C19 amended: counter values are assigned on first observation of a key as
\* 1, 2, 3, ... with no gaps, and every token returned is the fixed prefix
\* followed by the value in decimal, zero-padded to 4 digits: exactly 4 digits
\* for the first 9999 keys, and the value's own digits (more than 4, no leading
\* zero) from the 10000th key on.
C19_PaddedToAtLeastFourDigits ==
    /\ AssignedInOrderOfFirstSight
    /\ \A call \in rg_last :
          /\ TokenHoldsValue(call)
          /\ IF call.value <= 9999 THEN Len(call.token) = 3 + CounterWidth
             ELSE Len(call.token) > 3 + CounterWidth /\ call.token[4] # "0"

\* the 10000th distinct series was met in a run that also met a known key
C19_Witness ==
    /\ rg_seen.seqs = 10000
    /\ rg_seen.later > 10000 - BigDirectory
    /\ \E call \in rg_last :
          call.kind = "seq" /\ call.new /\ call.value = 10000 /\ Len(call.token) = 8

----------------------------------------------------------------------------
(* Claims about sanitization, checked under SpecSanitize *)

----------------------------------------------------------------------------
(* Claims about Batch_dcm2bids.py, checked under SpecBatch *)

\* the (subject directory, session directory) pairs of the input tree
SessionPairs ==
    {pair \in SubjectNames \X SessionNames :
        bt_tree[pair[1]].kind = "dir" /\ pair[2] \in bt_tree[pair[1]].dirs}

\* the place of a session directory among those of its subject, by name
PlaceInSubject(pair) ==
    1 + Cardinality({d \in bt_tree[pair[1]].dirs : str_lt(d, pair[2])})

\* ses-01, ses-02, ...: the place in two digits
LabelOfPlace(k) ==
    <<"s", "e", "s", "-", DigitChars[(k \div 10) + 1], DigitChars[(k % 10) + 1]>>

\* C22: process_sessions invokes the converter exactly once per (subject
\* directory, session directory) pair; the sessions of each subject are labelled
\* ses-01, ses-02, ... consecutively in sorted directory-name order, restarting
\* at 1 for every subject; exactly one (subject, session label, date) row is
\* appended to studies.tsv after each invocation, whether or not it succeeded.
\* (An invocation is a converter process that ran and returned; every pair has
\* had its invocation when process_sessions returns.)
C22_OneCallAndOneRowPerSession ==
    /\ \A i \in 1..Len(bt_calls) :
          /\ bt_calls[i].d \in SessionPairs
          /\ bt_calls[i].p = bt_calls[i].d[1]
          /\ bt_calls[i].s = LabelOfPlace(PlaceInSubject(bt_calls[i].d))
          /\ \A j \in 1..Len(bt_calls) : bt_calls[j].d = bt_calls[i].d => j = i
          /\ \A j \in 1..(i - 1) :
                bt_calls[j].p = bt_calls[i].p => str_lt(bt_calls[j].d[2], bt_calls[i].d[2])
    /\ bt_pc = "done" => {bt_calls[i].d : i \in 1..Len(bt_calls)} = SessionPairs
    /\ Len(bt_appended) = IF bt_pc = "append" THEN Len(bt_calls) - 1 ELSE Len(bt_calls)
    /\ \A i \in 1..Len(bt_appended) :
          bt_appended[i] = <<bt_calls[i].p, bt_calls[i].s, bt_calls[i].d[2]>>
    /\ bt_pc # "start" =>
          /\ bt_studies.exists
          /\ Len(bt_studies.lines) >= Len(bt_appended)
          /\ SubSeq(bt_studies.lines, Len(bt_studies.lines) - Len(bt_appended) + 1,
                    Len(bt_studies.lines)) = bt_appended

\* a finished run over two subjects of two sessions each, one of them holding the
\* sessions "10" and "2", in which an invocation failed and one succeeded
C22_Witness ==
    /\ bt_pc = "done"
    /\ Len(bt_calls) = 4
    /\ bt_tree[<<"A">>].dirs = {<<"1", "0">>, <<"2">>}
    /\ bt_tree[<<"B">>].files
    /\ bt_calls[1].returncode = 1 /\ bt_calls[2].returncode = 0
    /\ bt_appended[1] = <<<<"A">>, <<"s", "e", "s", "-", "0", "1">>, <<"1", "0">>>>
    /\ bt_appended[2] = <<<<"A">>, <<"s", "e", "s", "-", "0", "2">>, <<"2">>>>
    /\ bt_appended[3][1] = <<"B">> /\ bt_appended[3][2] = <<"s", "e", "s", "-", "0", "1">>

----------------------------------------------------------------------------
(* Specifications *)

InitDicomdir ==
    DDInit /\ SortIdle /\ FilterIdle /\ ProtoIdle /\ SetupIdle /\ RegistryIdle /\ SanitizeIdle
        /\ BatchIdle

SpecDicomdir == InitDicomdir /\ [][DDNext]_vars

InitSort ==
    SortInit /\ DDIdle /\ FilterIdle /\ ProtoIdle /\ SetupIdle /\ RegistryIdle /\ SanitizeIdle
        /\ BatchIdle

SpecSort == InitSort /\ [][SortNext]_vars

InitFilter ==
    FilterInit /\ DDIdle /\ SortIdle /\ ProtoIdle /\ SetupIdle /\ RegistryIdle /\ SanitizeIdle
        /\ BatchIdle

SpecFilter == InitFilter /\ [][FilterNext]_vars

InitProtocol ==
    ProtoInit /\ DDIdle /\ SortIdle /\ FilterIdle /\ SetupIdle /\ RegistryIdle /\ SanitizeIdle
        /\ BatchIdle

SpecProtocol == InitProtocol /\ [][ProtoNext]_vars

InitSetup ==
    SetupInit /\ DDIdle /\ SortIdle /\ FilterIdle /\ ProtoIdle /\ RegistryIdle /\ SanitizeIdle
        /\ BatchIdle

SpecSetup == InitSetup /\ [][SetupNext]_vars

InitRegistry ==
    RegistryInit /\ SortIdle /\ FilterIdle /\ ProtoIdle /\ SetupIdle /\ SanitizeIdle
        /\ BatchIdle

SpecRegistry == InitRegistry /\ [][RegistryNext]_vars

InitSanitize ==
    SanitizeInit /\ DDIdle /\ SortIdle /\ FilterIdle /\ ProtoIdle /\ SetupIdle /\ RegistryIdle
        /\ BatchIdle

SpecSanitize == InitSanitize /\ [][SanitizeNext]_vars

InitBatch ==
    BatchInit /\ DDIdle /\ SortIdle /\ FilterIdle /\ ProtoIdle /\ SetupIdle /\ RegistryIdle
        /\ SanitizeIdle

SpecBatch == InitBatch /\ [][BatchNext]_vars

====
